---- MODULE Spec2Model ----
(***************************************************************************)
(* FloppyReader.py: SCPWriter (flux image encoder), FloppyDrive (stepper   *)
(* control over a serial port) and the module-level capture run.           *)
(*                                                                         *)
(* Units.  The export file holds (timestamp, channel word) records; the    *)
(* timestamp is a sample number.  loadtrack divides it by the sample rate  *)
(* (20e6) and the serializers divide by 25e-9 and round.  The model keeps  *)
(* times in sample numbers and applies the conversion where the code       *)
(* rounds: round((a/20e6)/25e-9) = 2*a for every a below 2^50, the float   *)
(* error being far below one half.                                         *)
(*                                                                         *)
(* Positions.  Sequences are 1-based here and 0-based in Python: position  *)
(* i of the model is index i-1 of the code.  The slice tr[a:b+1] of the    *)
(* code is the closed range a+1..b+1 of the model.                         *)
(***************************************************************************)
EXTENDS Integers, Sequences, FiniteSets, TLC

VARIABLES
    trackdata,      \* SCPWriter.__trackdata: dict track -> intervals
    trackduration,  \* SCPWriter.__trackduration: the rows written so far
    tracklen,       \* SCPWriter.__tracklen: the rows written so far
    file,           \* contents of the export file read by loadtrack
    out,            \* contents of the image file written by saveimage
    last,           \* outcome of the last loadtrack call
    track,          \* FloppyDrive.track
    head,           \* cylinder the drive's head is on
    rts,            \* serial RTS line = direction select
    dtr,            \* serial DTR line = side select
    pc,             \* position of the capture run
    trackno,        \* loop variable of the capture run
    fresh,          \* a capture has finished since the last loadtrack
    calls           \* loadtrack calls made by the capture run, in order

writer == <<trackdata, trackduration, tracklen>>
drive == <<track, head, rts, dtr>>
run == <<pc, trackno, fresh, calls>>
vars == <<trackdata, trackduration, tracklen, file, out, last,
          track, head, rts, dtr, pc, trackno, fresh, calls>>

(***************************************************************************)
(* Program constants                                                       *)
(***************************************************************************)
NTRACKS == 168
NREVS == 2
UnitsPerSample == 2
NRunTracks == 83
ImageType == 16 + 5

(***************************************************************************)
(* Bounds of the model                                                     *)
(***************************************************************************)
MaxLen == 7
MaxTrackNo == 1
MaxHead == 7
MaxCount == 7

(***************************************************************************)
(* Helpers                                                                 *)
(***************************************************************************)
Min(a, b) == IF a < b THEN a ELSE b
Max(a, b) == IF a > b THEN a ELSE b
SetMax(S) == CHOOSE x \in S : \A y \in S : y <= x
SetMin(S) == CHOOSE x \in S : \A y \in S : x <= y

RECURSIVE SortedSeq(_)
SortedSeq(S) ==
    IF S = {} THEN <<>>
    ELSE LET m == SetMin(S) IN <<m>> \o SortedSeq(S \ {m})

\* concatenation of the sequences ss[a], ..., ss[b], by halves
RECURSIVE ConcatRange(_, _, _)
ConcatRange(ss, a, b) ==
    IF a > b THEN <<>>
    ELSE IF a = b THEN ss[a]
    ELSE LET m == (a + b) \div 2
         IN ConcatRange(ss, a, m) \o ConcatRange(ss, m + 1, b)

Flatten(ss) == ConcatRange(ss, 1, Len(ss))

\* struct.pack little-endian "L", big-endian "H", and their range checks
\* (x < 2^32 is written on the high half: TLC integers are 32 bits)
FitsL(x) == x >= 0 /\ x \div 65536 < 65536
FitsH(x) == x >= 0 /\ x < 65536
PackL(x) == <<x % 256, (x \div 256) % 256, (x \div 65536) % 256,
              (x \div 16777216) % 256>>
PackHBig(x) == <<(x \div 256) % 256, x % 256>>
UnpackL(b) == b[1] + 256 * b[2] + 65536 * b[3] + 16777216 * b[4]

(***************************************************************************)
(* Export file: records <<timestamp, channel word>> and the number of      *)
(* bytes left over after the last whole 16-byte record.                    *)
(***************************************************************************)
NoFile == [recs |-> <<>>, extra |-> -1]

\* one decoded sample (line 81): index in channel 1, read_data in channel 3
DecodeSample(r) ==
    [times |-> r[1], index |-> (r[2] \div 2) % 2, read_data |-> (r[2] \div 8) % 2]

Decode(f) == [i \in 1..Len(f.recs) |-> DecodeSample(f.recs[i])]

\* np.where(np.diff(col[a..b]) == -1)[0]+1, as positions of the whole buffer
FallingEdges(tr, col, a, b) ==
    {i \in (a + 1)..b : tr[i][col] - tr[i - 1][col] = -1}

IndexPulse(tr) == SortedSeq(FallingEdges(tr, "index", 1, Len(tr)))

\* tr[indexpulse[k]:indexpulse[k+1]+1], k counted from 0 as in the code
RevWindowNoOverlap(ip, k) == <<ip[k + 1], ip[k + 2] - 1>>
RevWindow(ip, k) == <<ip[k + 1], ip[k + 2]>>

RevDuration(tr, w) ==
    LET ts == {tr[i].times : i \in w[1]..w[2]} IN SetMax(ts) - SetMin(ts)

RevLen(tr, w) == Cardinality(FallingEdges(tr, "read_data", w[1], w[2]))

\* np.diff(tr.times[fluxchg]) over tr[trkstart:trkstop+1]
FluxIntervals(tr, trkstart, trkstop) ==
    LET fluxchg == SortedSeq(FallingEdges(tr, "read_data", trkstart, trkstop))
    IN [j \in 1..(Len(fluxchg) - 1) |->
            tr[fluxchg[j + 1]].times - tr[fluxchg[j]].times]

\* iterations of the revolution loop that finish before indexpulse[k+1]
\* raises IndexError
RevsDone(ip) == Min(NREVS, Max(Len(ip) - 1, 0))

(***************************************************************************)
(* SCPWriter.loadtrack                                                     *)
(*                                                                         *)
(* __trackduration and __tracklen are NTRACKS x NREVS arrays of zeros      *)
(* (lines 19-20).  The model stores the rows that were assigned and reads  *)
(* every other row as zeros.                                               *)
(***************************************************************************)
ZeroRow == [k \in 0..(NREVS - 1) |-> 0]
DurationRow(num) == IF num \in DOMAIN trackduration THEN trackduration[num] ELSE ZeroRow
LenRow(num) == IF num \in DOMAIN tracklen THEN tracklen[num] ELSE ZeroRow
SetRow(arr, num, row) ==
    [n \in DOMAIN arr \cup {num} |-> IF n = num THEN row ELSE arr[n]]

LoadStatus(f) ==
    IF f = NoFile THEN "FileNotFoundError"
    ELSE IF f.extra # 0 THEN "struct.error"
    ELSE IF RevsDone(IndexPulse(Decode(f))) < NREVS THEN "IndexError"
    ELSE "ok"

LoadTrackOp(num, f) ==
    LET status == LoadStatus(f)
        parsed == status \in {"IndexError", "ok"}
        tr == Decode(f)
        ip == IndexPulse(tr)
        done == IF parsed THEN RevsDone(ip) ELSE 0
        wins == [k \in 1..done |-> RevWindow(ip, k - 1)]
        durs == [k \in 0..(NREVS - 1) |->
                    IF k < done THEN RevDuration(tr, wins[k + 1])
                    ELSE DurationRow(num)[k]]
        lens == [k \in 0..(NREVS - 1) |->
                    IF k < done THEN RevLen(tr, wins[k + 1])
                    ELSE LenRow(num)[k]]
        \* line 94: shorten first revolution by 1 bitcell
        lens2 == IF status = "ok" THEN [lens EXCEPT ![0] = lens[0] - 1] ELSE lens
    IN /\ trackduration' = IF done > 0 THEN SetRow(trackduration, num, durs)
                         ELSE trackduration
       /\ tracklen' = IF done > 0 THEN SetRow(tracklen, num, lens2) ELSE tracklen
       /\ trackdata' =
            IF status = "ok"
            THEN SetRow(trackdata, num, FluxIntervals(tr, ip[1], ip[Len(ip)]))
            ELSE trackdata
       /\ last' = [num |-> num, status |-> status,
                   reported |-> parsed /\ Len(ip) # NREVS + 1,
                   npulses |-> IF parsed THEN Len(ip) ELSE 0,
                   windows |-> wins]

(***************************************************************************)
(* SCPWriter serializers                                                   *)
(***************************************************************************)
Present == DOMAIN trackdata

\* fileheader raises ValueError (max of an empty sequence) on an empty image
FileHeaderRaises == Present = {}

FileHeader ==
    <<83, 67, 80, 23, ImageType, NREVS, 0, SetMax(Present), 1, 0, 0, 0>>
        \o PackL(0)

\* values packed for revolution k of track num (lines 61-62)
HdrDuration(num, k) == DurationRow(num)[k] * UnitsPerSample
HdrLen(num, k) == LenRow(num)[k]

RECURSIVE HdrStart(_, _)
HdrStart(num, k) ==
    IF k = 0 THEN 4 + 12 * NREVS
    ELSE HdrStart(num, k - 1) + 2 * HdrLen(num, k - 1)

TrackHeaderRaises(num) ==
    \E k \in 0..(NREVS - 1) :
        \/ ~FitsL(HdrDuration(num, k))
        \/ ~FitsL(HdrLen(num, k))
        \/ ~FitsL(HdrStart(num, k))

TrackHeader(num) ==
    <<84, 82, 75, num>> \o
    Flatten([k \in 1..NREVS |->
        PackL(HdrDuration(num, k - 1)) \o PackL(HdrLen(num, k - 1))
            \o PackL(HdrStart(num, k - 1))])

Bitcells(num) == [j \in 1..Len(trackdata[num]) |-> trackdata[num][j] * UnitsPerSample]

TrackDataRaises(num) ==
    \/ num \notin Present
    \/ \E j \in 1..Len(trackdata[num]) : ~FitsH(Bitcells(num)[j])

TrackData(num) ==
    Flatten([j \in 1..Len(trackdata[num]) |-> PackHBig(Bitcells(num)[j])])

\* the try body of line 46 raises
BlockRaises(k) == TrackDataRaises(k) \/ TrackHeaderRaises(k)

BlockLen(k) == Len(TrackData(k)) + Len(TrackHeader(k))

\* what tracks a..b add to offs in the loop of trackoffsettable: the block
\* length of each track whose try body did not raise (summed by halves)
RECURSIVE SumLen(_, _)
SumLen(a, b) ==
    IF a > b THEN 0
    ELSE IF a = b THEN (IF BlockRaises(a) THEN 0 ELSE BlockLen(a))
    ELSE LET m == (a + b) \div 2 IN SumLen(a, m) + SumLen(m + 1, b)

\* offs when the loop of trackoffsettable reaches track k
OffsAt(k) == Len(FileHeader) + NTRACKS * 4 + SumLen(0, k - 1)

\* scp_tracklist[k]
TrackListEntry(k) == IF BlockRaises(k) THEN 0 ELSE OffsAt(k)

\* scp_tracklist of trackoffsettable; entry k+1 is track k
Offsets == [k \in 1..NTRACKS |-> TrackListEntry(k - 1)]

TrackOffsetTable == Flatten([k \in 1..NTRACKS |-> PackL(TrackListEntry(k - 1))])

\* what one pass of the loop of saveimage writes for track k
Written(k) ==
    IF TrackHeaderRaises(k) THEN <<>>
    ELSE IF TrackDataRaises(k) THEN TrackHeader(k)
    ELSE TrackHeader(k) \o TrackData(k)

\* no image file exists yet
NotWritten == <<-1>>

\* time.asctime(): 24 characters
Stamps == {[i \in 1..24 |-> 48], [i \in 1..24 |-> 49]}

SaveImageOp(stamp) ==
    out' = IF FileHeaderRaises THEN <<>>
           ELSE FileHeader \o TrackOffsetTable
                \o Flatten([k \in 1..(SetMax(Present) + 1) |-> Written(k - 1)])
                \o stamp

(***************************************************************************)
(* FloppyDrive                                                             *)
(***************************************************************************)
\* the mechanism: one step pulse moves the head one cylinder, inwards
\* (towards track 79) with the direction line set, outwards otherwise,
\* where it stops at cylinder 0
HeadAfter(h, direction) == IF direction THEN h + 1 ELSE Max(h - 1, 0)

\* the counter after one step (lines 167-171)
TrackAfter(t, direction) ==
    IF direction THEN (IF t > 0 THEN t - 1 ELSE t) ELSE t + 1

StepOp(dirstr) ==
    LET direction == dirstr # "out"
    IN /\ rts' = direction
       /\ head' = HeadAfter(head, direction)
       /\ track' = TrackAfter(track, direction)

\* while (not self.p.cts): step("out"); cts is the track 0 sensor
RECURSIVE RezeroLoop(_)
RezeroLoop(s) ==
    IF s.head = 0 THEN s
    ELSE RezeroLoop([head |-> HeadAfter(s.head, FALSE),
                     track |-> TrackAfter(s.track, FALSE), rts |-> FALSE])

RezeroOp ==
    LET s == RezeroLoop([head |-> head, track |-> track, rts |-> rts])
    IN /\ head' = s.head
       /\ rts' = s.rts
       /\ track' = 0

SideSelectOp(side) == dtr' = (side = 1)

(***************************************************************************)
(* Initial states                                                          *)
(***************************************************************************)
InitWriter ==
    /\ trackdata = <<>>
    /\ trackduration = <<>>
    /\ tracklen = <<>>
    /\ out = NotWritten
    /\ last = [num |-> -1, status |-> "none", reported |-> FALSE,
               npulses |-> 0, windows |-> <<>>]

\* after FloppyDrive.__init__: rezero, sideselect(0)
InitDrive ==
    /\ track = 0
    /\ head = 0
    /\ rts \in BOOLEAN
    /\ dtr = FALSE

\* no FloppyDrive has been constructed: the lines of a serial port not yet
\* opened, no head movement
NoDrive ==
    /\ track = 0
    /\ head = 0
    /\ rts = TRUE
    /\ dtr = FALSE

InitRun ==
    /\ pc = "side0"
    /\ trackno = 0
    /\ fresh = FALSE
    /\ calls = <<>>

(***************************************************************************)
(* Inputs                                                                  *)
(***************************************************************************)
\* a well-formed export: sample i taken at (i-1)*gap, channel 1 = index,
\* channel 3 = read_data
Buf(idx, rd, gap) ==
    [recs |-> [i \in 1..Len(idx) |-> <<(i - 1) * gap, 2 * idx[i] + 8 * rd[i]>>],
     extra |-> 0]

Idx3 == <<1, 0, 1, 1, 0, 1, 1, 1, 0>>
GoodA == Buf(Idx3, <<1, 1, 0, 1, 0, 1, 0, 1, 0>>, 100)
GoodB == Buf(Idx3, <<1, 1, 0, 0, 1, 0, 1, 1, 0>>, 100)
Blank == Buf(Idx3, <<0, 0, 0, 0, 0, 0, 0, 0, 0>>, 100)
Overflow == Buf(Idx3, <<1, 1, 0, 1, 0, 1, 0, 1, 0>>, 20000)
ShortIdx == Buf(<<1, 0, 1, 1, 0, 1, 1, 1, 1>>, <<1, 1, 0, 1, 0, 1, 0, 1, 0>>, 100)
Malformed == [GoodA EXCEPT !.extra = 8]

Buffers == {GoodA, GoodB, Blank, Overflow, ShortIdx}

RunBuffers == {GoodA, ShortIdx, Malformed}

\* every export of at most MaxLen samples, one sample per tick
Words == {0, 2, 8, 10}
Ticks(ws) == [recs |-> [i \in 1..Len(ws) |-> <<i - 1, ws[i]>>], extra |-> 0]

(***************************************************************************)
(* SCPWriter used on its own                                               *)
(***************************************************************************)
\* loadtrack(num, filename) with b the contents of the file
LoadTrack(num, b) ==
    /\ out = NotWritten
    /\ file' = b
    /\ LoadTrackOp(num, b)
    /\ UNCHANGED <<out, drive, run>>

SaveImage(stamp) ==
    /\ out = NotWritten
    /\ SaveImageOp(stamp)
    /\ UNCHANGED <<writer, file, last, drive, run>>

Init ==
    /\ InitWriter
    /\ NoDrive
    /\ InitRun
    /\ file = NoFile

Next ==
    \/ \E num \in 0..MaxTrackNo, b \in Buffers : LoadTrack(num, b)
    \/ \E stamp \in Stamps : SaveImage(stamp)

Spec == Init /\ [][Next]_vars

(***************************************************************************)
(* loadtrack applied once to each export of bounded length                 *)
(***************************************************************************)
InitLoad ==
    /\ InitWriter
    /\ NoDrive
    /\ InitRun
    /\ \E n \in 0..MaxLen : \E ws \in [1..n -> Words] : file = Ticks(ws)

NextLoad ==
    /\ last.status = "none"
    /\ LoadTrack(0, file)

SpecLoad == InitLoad /\ [][NextLoad]_vars

(***************************************************************************)
(* FloppyDrive used on its own                                             *)
(***************************************************************************)
DriveStep(dirstr) ==
    /\ dirstr = "out" \/ head < MaxHead
    /\ dirstr = "out" => track < MaxCount
    /\ StepOp(dirstr)
    /\ UNCHANGED <<dtr, writer, file, out, last, run>>

DriveRezero ==
    /\ RezeroOp
    /\ UNCHANGED <<dtr, writer, file, out, last, run>>

DriveSideSelect(side) ==
    /\ SideSelectOp(side)
    /\ UNCHANGED <<track, head, rts, writer, file, out, last, run>>

NextDrive ==
    \/ \E dirstr \in {"in", "out"} : DriveStep(dirstr)
    \/ DriveRezero
    \/ \E side \in {0, 1} : DriveSideSelect(side)

InitFloppy ==
    /\ InitWriter
    /\ InitDrive
    /\ InitRun
    /\ file = NoFile

SpecDrive == InitFloppy /\ [][NextDrive]_vars

(***************************************************************************)
(* The capture run (lines 179-198)                                         *)
(***************************************************************************)
RunTrackIndexSwapped(t, s) == 2 * t + (1 - s)
RunTrackIndex(t, s) == 2 * t + s

RunSideSelect(side) ==
    /\ pc = IF side = 0 THEN "side0" ELSE "side1"
    /\ trackno < NRunTracks
    /\ SideSelectOp(side)
    /\ pc' = IF side = 0 THEN "capture0" ELSE "capture1"
    /\ UNCHANGED <<track, head, rts, writer, file, out, last, trackno, fresh, calls>>

\* captureandsave returns once the export is complete
RunCapture(b) ==
    /\ pc \in {"capture0", "capture1"}
    /\ file' = b
    /\ fresh' = TRUE
    /\ pc' = IF pc = "capture0" THEN "load0" ELSE "load1"
    /\ UNCHANGED <<writer, out, last, drive, trackno, calls>>

\* an exception of loadtrack is caught nowhere and ends the program
RunLoadTrack ==
    /\ pc \in {"load0", "load1"}
    /\ LET side == IF pc = "load0" THEN 0 ELSE 1
           num == RunTrackIndex(trackno, side)
       IN /\ LoadTrackOp(num, file)
          /\ calls' = Append(calls, [num |-> num, dtr |-> dtr, head |-> head,
                                     fresh |-> fresh, saved |-> out # NotWritten])
          /\ pc' = IF last'.status # "ok" THEN "crashed"
                   ELSE IF side = 0 THEN "side1" ELSE "step"
    /\ fresh' = FALSE
    /\ UNCHANGED <<file, out, drive, trackno>>

RunStep ==
    /\ pc = "step"
    /\ StepOp("in")
    /\ trackno' = trackno + 1
    /\ pc' = "side0"
    /\ UNCHANGED <<dtr, writer, file, out, last, fresh, calls>>

RunSaveImage(stamp) ==
    /\ pc = "side0"
    /\ trackno = NRunTracks
    /\ SaveImageOp(stamp)
    /\ pc' = "done"
    /\ UNCHANGED <<writer, file, last, drive, trackno, fresh, calls>>

\* line 183 leaves the head on cylinder 0 before the loop starts
InitCapture ==
    /\ InitWriter
    /\ InitDrive
    /\ InitRun
    /\ file = NoFile

NextRun ==
    \/ \E side \in {0, 1} : RunSideSelect(side)
    \/ \E b \in RunBuffers : RunCapture(b)
    \/ RunLoadTrack
    \/ RunStep
    \/ \E stamp \in Stamps : RunSaveImage(stamp)

SpecRun == InitCapture /\ [][NextRun]_vars

(***************************************************************************)
(* Properties                                                              *)
(***************************************************************************)
Tracks == 0..(NTRACKS - 1)

\* an image file was written and holds a header and an offset table
Saved == out # NotWritten /\ out # <<>>

\* entry k of the offset table, read back from the bytes of the image file
FileOffset(k) == UnpackL(SubSeq(out, 16 + 4 * k + 1, 16 + 4 * k + 4))

\* C1: in the bytes written by saveimage, every track with a nonzero entry
\* in the offset table has its block ("TRK", track number, revolution
\* entries, bitcell stream) exactly at that offset; the first block starts
\* at 16 + 168*4 = 688 and each next block starts where the previous ends.
C1_BlocksAtTheirOffsets ==
    Saved =>
        LET listed == {k \in Tracks : FileOffset(k) # 0}
        IN \A k \in listed :
            /\ SubSeq(out, FileOffset(k) + 1, FileOffset(k) + BlockLen(k))
                    = TrackHeader(k) \o TrackData(k)
            /\ FileOffset(k) =
                    IF \A j \in listed : j >= k
                    THEN 16 + NTRACKS * 4
                    ELSE LET p == SetMax({j \in listed : j < k})
                         IN FileOffset(p) + BlockLen(p)

\* C2: the offset table entry of track k is 0 exactly when no loadtrack
\* for k has completed; every loaded track gets a nonzero offset whatever
\* flux data it holds.
C2_OffsetZeroIffAbsent ==
    Present # {} => \A k \in Tracks : (TrackListEntry(k) = 0) <=> (k \notin Present)

\* the export has the expected index edges and no read-data falling edge
BlankFile(f) ==
    /\ LoadStatus(f) = "ok"
    /\ Len(IndexPulse(Decode(f))) = NREVS + 1
    /\ FallingEdges(Decode(f), "read_data", 1, Len(f.recs)) = {}

\* C3: a track loaded from a blank export (index edges as expected, no
\* read-data falling edge) is a present track: its bitcell stream is
\* empty, its offset is nonzero, and saveimage writes its block.
C3_BlankTrackIsPresent ==
    (last.status = "ok" /\ BlankFile(file)) =>
        /\ Len(trackdata[last.num]) = 0
        /\ TrackListEntry(last.num) # 0
        /\ Saved => FileOffset(last.num) # 0

\* C4: an export with fewer than NREVS+1 index falling edges is reported
\* by loadtrack and is not fatal: loadtrack completes and the capture run
\* goes on.
C4_ShortfallIsNotFatal ==
    (last.status \in {"ok", "IndexError"} /\ last.npulses < NREVS + 1) =>
        /\ last.reported
        /\ last.status = "ok"
        /\ last.num \in Present
        /\ pc # "crashed"

HasOverflow(k) == \E j \in 1..Len(trackdata[k]) : Bitcells(k)[j] > 65535

\* saveimage raises to its caller (the only exception it lets through)
SaveImageRaises == FileHeaderRaises

\* C5: a loaded track holding an interval above 65535 units is either
\* written as a present track with every bitcell in 0..65535, or the
\* anomaly reaches the caller; it is never dropped without a report.
C5_OverflowNeverDroppedSilently ==
    \A k \in Present :
        HasOverflow(k) => TrackListEntry(k) # 0 \/ SaveImageRaises

RECURSIVE SumRow(_, _)
SumRow(row, k) == IF k < 0 THEN 0 ELSE row[k] + SumRow(row, k - 1)

\* C6: after a completed loadtrack the bitcell counts of the revolutions
\* are non-negative and add up to the number of intervals of the stream,
\* so the last revolution's data start plus twice its count is the length
\* of the block.
C6_BitcellCountsConsistent ==
    last.status = "ok" =>
        LET n == last.num
        IN /\ \A k \in 0..(NREVS - 1) : LenRow(n)[k] >= 0
           /\ SumRow(LenRow(n), NREVS - 1) = Len(trackdata[n])
           /\ HdrStart(n, NREVS - 1) + 2 * HdrLen(n, NREVS - 1)
                = 4 + 12 * NREVS + 2 * Len(trackdata[n])

\* loadtrack completed on an export with exactly NREVS+1 index edges
ExactPulses == last.status = "ok" /\ last.npulses = NREVS + 1

Samples(w) == w[1]..w[2]
Covered == UNION {Samples(last.windows[k]) : k \in 1..Len(last.windows)}

WindowsChained ==
    /\ Len(last.windows) = NREVS
    /\ \A k \in 1..(NREVS - 1) :
        Cardinality(Samples(last.windows[k]) \cap Samples(last.windows[k + 1])) = 1

\* C7 (as claimed): with exactly NREVS+1 index edges loadtrack forms NREVS
\* windows, consecutive windows share exactly one sample, and the windows
\* cover the whole buffer from its first sample to its last.
C7_WindowsCoverBuffer ==
    ExactPulses => WindowsChained /\ Covered = 1..Len(file.recs)

\* C7 (amended): with exactly NREVS+1 index edges loadtrack forms NREVS
\* windows, consecutive windows share exactly one sample, and the windows
\* cover exactly the samples from the first index falling edge to the last
\* one; the first sample of the buffer lies in no window.
C7_WindowsCoverTrackWindow ==
    ExactPulses =>
        LET ip == IndexPulse(Decode(file))
        IN /\ WindowsChained
           /\ Covered = ip[1]..ip[NREVS + 1]
           /\ 1 \notin Covered

C7_Witness ==
    /\ ExactPulses
    /\ Len(last.windows) = NREVS
    /\ Covered # 1..Len(file.recs)
    /\ \E k \in 1..NREVS : Cardinality(Samples(last.windows[k])) > 2

\* C8: once a loadtrack for track k has completed, no later step changes
\* the durations, bitcell counts or intervals stored for k.
C8_TracksWriteOnce ==
    [][\A k \in Present :
        /\ k \in DOMAIN trackdata'
        /\ trackdata'[k] = trackdata[k]
        /\ DurationRow(k)' = DurationRow(k)
        /\ LenRow(k)' = LenRow(k)]_vars

\* C9: the capture run calls loadtrack for the indices 0, 1, 2, ... in this
\* order, once each; the call for index 2*t+s is made with side s selected,
\* after a capture that finished since the previous call, with the head
\* stepped in t times since the rezero; saveimage runs only after the last
\* loadtrack has returned.
C9_CaptureOrder ==
    /\ \A i \in 1..Len(calls) :
        /\ calls[i].num = i - 1
        /\ calls[i].dtr = ((i - 1) % 2 = 1)
        /\ calls[i].head = (i - 1) \div 2
        /\ calls[i].fresh
        /\ ~calls[i].saved
    /\ out # NotWritten =>
        /\ Len(calls) = 2 * NRunTracks
        /\ last.status = "ok"
        /\ last.num = 2 * NRunTracks - 1
        /\ pc = "done"

C9_Witness ==
    /\ pc = "done"
    /\ Saved
    /\ Len(calls) = 2 * NRunTracks

\* C10: the track counter of FloppyDrive equals the cylinder the head is
\* on after any sequence of rezero and step calls.
C10_CounterFollowsHead == track = head

====
